---- MODULE Spec2Model ----
(***************************************************************************)
(* kswatch.py: watch a Kickstarter pledge page for sold-out reward tiers   *)
(* and push a notification when a watched tier becomes available again.    *)
(*                                                                         *)
(* The model follows the script top to bottom: start-up (lines 177-213)    *)
(* and the watch loop (lines 214-229).  The page fetch, the HTML parse and *)
(* the Pushover POST are the environment: each either returns or raises.   *)
(***************************************************************************)
EXTENDS Integers, Sequences, FiniteSets, TLC

\* ------------------------------------------------------------------ bounds
MaxTiers == 2      \* records in one extraction
MaxAmounts == 1    \* cost-of-pledge arguments on the command line
MaxPolls == 3      \* iterations of line 229 that are explored

MaxCalls == 2      \* calls of ks.process on the one parser object
MaxData == 2       \* text events in one markup
MaxRecords == 2    \* records appended in one call
MaxPage == 3       \* events of a short markup

\* ------------------------------------------------------- the environment
\* Reward tuples (value, ident, description) as appended at lines 101-103.
\* Two of them share the ident "A" but differ in value and description,
\* two share value and description but differ in ident.
Tiers ==
    { [value |-> "$50.00", ident |-> "A", description |-> "Early bird"],
      [value |-> "$75.00", ident |-> "A", description |-> "Poster"],
      [value |-> "$75.00", ident |-> "B", description |-> "Poster"],
      [value |-> "75",     ident |-> "C", description |-> "Print"] }

RECURSIVE SeqsUpTo(_, _)
SeqsUpTo(S, n) ==
    IF n = 0 THEN { <<>> }
    ELSE LET shorter == SeqsUpTo(S, n - 1)
         IN  shorter \cup { Append(q, x) : q \in shorter, x \in S }

\* What one call of ks.process(url) can return in self.rewards.
Extractions == SeqsUpTo(Tiers, MaxTiers)

\* What fromstring(res.content).findtext('.//title') can return: the text
\* of the page's <title>, or None when the page has none.
PageTitles == { "None", " Campaign " }

\* Option spellings of the OptionParser (lines 152-160) and the number of
\* argv entries each one takes.
OptionTokens == [o \in {"-d", "-v", "-c"} |-> IF o = "-v" THEN 1 ELSE 2]

\* cost-of-pledge arguments as typed by the user.
AmountArgs == { "50", "75", "$75.00" }

CommandLines ==
    [ options : SUBSET DOMAIN OptionTokens,
      amounts : SeqsUpTo(AmountArgs, MaxAmounts) ]

\* -------------------------------------------------------- Python values
\* Names that resolve at module level under the interpreter named in line 1:
\* the imports of lines 26-35, the module's own definitions, and the
\* builtins the script calls.
ModuleNames ==
    { "os", "sys", "time", "unescape", "HTMLParser", "fromstring",
      "OptionParser", "configparser", "requests",
      "KickstarterHTMLParser", "push_message", "pledge_menu" }

Builtins ==
    { "print", "map", "float", "int", "len", "dict", "str" }

NameDefined(n) == n \in ModuleNames \cup Builtins

\* float(text): the number (kept in cents) or ValueError.
FloatOf(a) ==
    CASE a = "50" -> [ok |-> TRUE,  ty |-> "float", cents |-> 5000]
      [] a = "75" -> [ok |-> TRUE,  ty |-> "float", cents |-> 7500]
      [] OTHER    -> [ok |-> FALSE, ty |-> "float", cents |-> 0]

\* A str object; it carries no number.
PyStr(t) == [ok |-> TRUE, ty |-> "str", text |-> t]

\* x == y for a str x and a float y: objects of different types are unequal.
PyEq(x, y) ==
    /\ x.ty = y.ty
    /\ IF x.ty = "str" THEN x.text = y.text ELSE x.cents = y.cents

\* `x in it` for the iterator it = map(float, args): items are produced one
\* at a time and consumed; the search stops at the first equal item.
RECURSIVE IterContains(_, _)
IterContains(x, it) ==
    IF it = <<>> THEN [found |-> FALSE, rest |-> <<>>, raised |-> FALSE]
    ELSE LET f == FloatOf(Head(it))
         IN  IF ~f.ok THEN [found |-> FALSE, rest |-> Tail(it), raised |-> TRUE]
             ELSE IF PyEq(x, f)
                  THEN [found |-> TRUE, rest |-> Tail(it), raised |-> FALSE]
                  ELSE IterContains(x, Tail(it))

\* [r for r in rewards if r[0] in pledges]
RECURSIVE SelectByPledges(_, _)
SelectByPledges(rs, it) ==
    IF rs = <<>> THEN [sel |-> <<>>, rest |-> it, raised |-> FALSE]
    ELSE LET c == IterContains(PyStr(Head(rs).value), it)
         IN  IF c.raised THEN [sel |-> <<>>, rest |-> c.rest, raised |-> TRUE]
             ELSE LET more == SelectByPledges(Tail(rs), c.rest)
                  IN  [sel    |-> IF c.found THEN <<Head(rs)>> \o more.sel
                                  ELSE more.sel,
                       rest   |-> more.rest,
                       raised |-> more.raised]

\* ------------------------------------------------------------ the state
VARIABLES
    argv,       \* the command line (fixed for the run)
    pledges,    \* `pledges`: None, or the unconsumed items of map(float, ..)
    rewards,    \* `rewards`: the latest unavailable-set
    selected,   \* `selected`: the watch-set
    name,       \* ks.name
    pc,         \* position of the script
    polls,      \* how many times line 229 has run
    pushed,     \* messages accepted by push_message
    console,    \* lines printed
    exitCode,   \* -1 while running, then the exit status
    raised,     \* "" or the exception that ended the run
    cycle,      \* bookkeeping of the current cycle's diff step
    ks,         \* the KickstarterHTMLParser object of line 187
    feed        \* bookkeeping of the calls of ks.process and their events

vars == <<argv, pledges, rewards, selected, name, pc, polls, pushed,
          console, exitCode, raised, cycle, ks, feed>>

\* The script's own variables, and the parser's.
scriptVars == <<argv, pledges, rewards, selected, name, pc, polls, pushed,
                console, exitCode, raised, cycle>>
parserVars == <<ks, feed>>

None == [none |-> TRUE, items |-> <<>>]
Iter(items) == [none |-> FALSE, items |-> items]

\* cycle: n counts the diff steps run so far; pre and rew are the watch-set
\* and the unavailable-set the latest diff step worked on, hit the record it
\* treated as newly available (at most one), pushes the availability
\* notifications it sent.
NoCycle == [n |-> 0, pre |-> <<>>, rew |-> <<>>, hit |-> <<>>, pushes |-> 0]

\* KickstarterHTMLParser(), lines 61-65: the two flags are set; value, ident,
\* description and rewards are attributes the constructor does not create
\* (`has` lists the attributes that exist).
KickstarterHTMLParser ==
    [ in_li_block |-> FALSE, in_desc_block |-> FALSE,
      has |-> {}, value |-> <<>>, ident |-> "", description |-> <<>>,
      rewards |-> <<>> ]

\* feed: call counts the calls of ks.process begun and active tells whether
\* one is under way; mode tells how the markup of the call is drawn: "free"
\* (the last call of a run, events as they come: the first call, or the
\* call after one short markup), "record" (a first call on a short markup,
\* kept in page), "replay" (a later call on the markup of page again) or
\* "short" (a later call on another short markup); raised is the
\* exception that left process; results are the lists returned by the calls
\* on the markup of page.  The
\* rest describes the markup of the current call: data counts its text
\* events, gone tells whether a start tag with the all-gone marker occurred,
\* selector whether a selector control occurred in the current candidate
\* block, bare whether the latest event closed a candidate block without
\* one, and shape follows the markup against the form "one well-formed
\* candidate block".
NoShape ==
    [ phase |-> "before", inputs |-> 0, title |-> <<>>, id |-> "", text |-> <<>>,
      texts |-> 0 ]

NoFeed ==
    [ call |-> 0, active |-> FALSE, mode |-> "free", page |-> <<>>, pos |-> 0,
      raised |-> "", results |-> <<>>, data |-> 0, gone |-> FALSE,
      selector |-> FALSE, bare |-> FALSE, shape |-> NoShape ]

Init ==
    /\ argv \in CommandLines
    /\ pledges = None
    /\ rewards = <<>>
    /\ selected = <<>>
    /\ name = ""
    /\ pc = "start"
    /\ polls = 0
    /\ pushed = <<>>
    /\ console = <<>>
    /\ exitCode = -1
    /\ raised = ""
    /\ cycle = NoCycle
    /\ ks = KickstarterHTMLParser
    /\ feed = NoFeed

\* --------------------------------------------------------------- helpers
Range(q) == { q[i] : i \in 1..Len(q) }

\* [r[1] for r in rewards]
IdentsOf(rs) == { rs[i].ident : i \in 1..Len(rs) }

\* The test of line 216 written as a comparison of whole records.
Available_ByRecord(s, rs) == s \notin Range(rs)

\* The test of line 216 for one watched record.
Available(s, rs) == s.ident \notin IdentsOf(rs)

\* The for loop of lines 215-216: index of the first watched record that
\* passes the test, 0 when the loop runs to its end.
FirstAvailable(sel, rs) ==
    IF \E i \in 1..Len(sel) : Available(sel[i], rs)
    THEN CHOOSE i \in 1..Len(sel) :
            /\ Available(sel[i], rs)
            /\ \A j \in 1..(i - 1) : ~Available(sel[j], rs)
    ELSE 0

\* [x for x in selected if x != s]
Remove(sel, s) ==
    LET Keep(x) == x # s
    IN  SelectSeq(sel, Keep)

\* A test that never takes the exit.
Not_Never(x) == FALSE

\* `not x` for a list x (lines 190, 202, 221): true of the empty list only.
Not(x) == x = <<>>

\* A push that reports success without handing the message over.
push_message_Lost(sent, message) == sent

\* push_message(message, url), lines 115-122, once requests.post returned:
\* the message is with the notification service.
push_message(sent, message) == Append(sent, message)

\* Outcomes of ks.process(url): requests.get or the parse may raise.
ProcessOutcomes == { "returns", "RequestException", "ParserError" }

\* Outcomes of requests.post inside push_message.
PostOutcomes == { "returns", "RequestException" }

\* Answers typed at the prompt of line 140, already split into integers.
MenuAnswers == SeqsUpTo(-1..3, 1)

\* pledge_menu(rewards), lines 124-144, for one typed answer.
pledge_menu(rs, ans) ==
    LET count == Len(rs)
        Valid(i) == (i - 1) \in (0 - count)..(count - 1)  \* list index, negatives count from the end
        At(i) == IF i - 1 >= 0 THEN rs[i] ELSE rs[count + i]
    IN  IF count = 1
        THEN [ret |-> rs, raised |-> "", again |-> FALSE,
              out |-> <<"Automatically selecting the only limited award available:">>]
        ELSE IF ~NameDefined("xrange")
        THEN [ret |-> <<>>, raised |-> "NameError", again |-> FALSE, out |-> <<>>]
        ELSE IF ~NameDefined("raw_input")
        THEN [ret |-> <<>>, raised |-> "", again |-> TRUE, out |-> <<"menu">>]
        ELSE IF \A k \in 1..Len(ans) : Valid(ans[k])
        THEN [ret |-> [k \in 1..Len(ans) |-> At(ans[k])], raised |-> "",
              again |-> FALSE, out |-> <<"menu">>]
        ELSE [ret |-> <<>>, raised |-> "", again |-> TRUE, out |-> <<"menu">>]

\* An uncaught exception ends the interpreter with status 1.
Die(exc) ==
    /\ pc' = "done"
    /\ exitCode' = 1
    /\ raised' = exc

\* sys.exit(0)
Exit0 ==
    /\ pc' = "done"
    /\ exitCode' = 0
    /\ raised' = ""

Goto(l) ==
    /\ pc' = l
    /\ UNCHANGED <<exitCode, raised>>

\* --------------------------------------------------------------- start-up
\* Lines 177-192: build the pledge iterator, first extraction.
Startup ==
    /\ pc = "start"
    /\ LET argc == 2 + Len(argv.amounts)
                     + (IF "-d" \in argv.options THEN OptionTokens["-d"] ELSE 0)
                     + (IF "-v" \in argv.options THEN OptionTokens["-v"] ELSE 0)
                     + (IF "-c" \in argv.options THEN OptionTokens["-c"] ELSE 0)
       IN  pledges' = IF argc > 2 THEN Iter(argv.amounts) ELSE None
    /\ \E out \in ProcessOutcomes, title \in PageTitles, ext \in Extractions :
          IF out # "returns"
          THEN /\ Die(out)
               /\ UNCHANGED <<rewards, name, console>>
          ELSE /\ rewards' = ext
               /\ name' = title
               /\ IF Not(ext)
                  THEN /\ console' = Append(console, "No unavailable limited rewards for this Kickstarter")
                       /\ Exit0
                  ELSE /\ console' = console
                       /\ Goto("select")
    /\ UNCHANGED <<argv, selected, polls, pushed, cycle>>
    /\ UNCHANGED parserVars

\* Lines 195-208: select the pledge level(s).
Select ==
    /\ pc = "select"
    /\ \E ans \in MenuAnswers :
         LET byAmount == SelectByPledges(rewards, pledges.items)
             menu     == pledge_menu(rewards, ans)
             \* `if pledges:` -- a map object is true whatever it holds
             useAmounts == ~pledges.none
             sel    == IF useAmounts THEN byAmount.sel ELSE menu.ret
             exc    == IF useAmounts
                       THEN (IF byAmount.raised THEN "ValueError" ELSE "")
                       ELSE menu.raised
             out    == IF useAmounts THEN <<>> ELSE menu.out
         IN  IF exc # ""
             THEN /\ Die(exc)
                  /\ UNCHANGED <<selected, console>>
             ELSE IF ~useAmounts /\ menu.again
             THEN /\ Goto("select")
                  /\ console' = console
                  /\ UNCHANGED selected
             ELSE /\ selected' = sel
                  /\ IF Not(sel)
                     THEN /\ console' = console \o out \o <<"No reward selected.">>
                          /\ Exit0
                     ELSE /\ console' = console \o out \o <<"Selected rewards:">>
                          /\ Goto("confirm")
    /\ pledges' = IF pledges.none THEN pledges
                  ELSE Iter(SelectByPledges(rewards, pledges.items).rest)
    /\ UNCHANGED <<argv, rewards, name, polls, pushed, cycle>>
    /\ UNCHANGED parserVars

\* Lines 210-213: the test push, then "Watching...".
Confirm ==
    /\ pc = "confirm"
    /\ \E post \in PostOutcomes :
         IF name = "None"
         THEN \* ks.name.strip() on None
              /\ Die("AttributeError")
              /\ console' = Append(console, "Sending test push to make sure everything is OK")
              /\ UNCHANGED pushed
         ELSE IF post # "returns"
         THEN /\ Die(post)
              /\ console' = Append(console, "Sending test push to make sure everything is OK")
              /\ UNCHANGED pushed
         ELSE /\ pushed' = push_message(pushed, "Start watching")
              /\ console' = console \o <<"Sending test push to make sure everything is OK",
                                         "Watching...">>
              /\ Goto("diff")
    /\ UNCHANGED <<argv, pledges, rewards, selected, name, polls, cycle>>
    /\ UNCHANGED parserVars

\* -------------------------------------------------------------- watch loop
\* Lines 215-216 when no watched record passes the test: the for loop ends.
NoTransition ==
    /\ pc = "diff"
    /\ FirstAvailable(selected, rewards) = 0
    /\ cycle' = [n |-> cycle.n + 1, pre |-> selected, rew |-> rewards,
                 hit |-> <<>>, pushes |-> 0]
    /\ Goto("sleep")
    /\ UNCHANGED <<argv, pledges, rewards, selected, name, polls, pushed, console>>
    /\ UNCHANGED parserVars

\* Lines 215-224 when a watched record passes the test of line 216.
Transition ==
    /\ pc = "diff"
    /\ FirstAvailable(selected, rewards) # 0
    /\ LET s == selected[FirstAvailable(selected, rewards)]
           announced == Append(console, "Reward available!")          \* line 217
       IN  \E post \in PostOutcomes :
             IF ~NameDefined("string")
             THEN \* line 218 raises NameError
                  /\ Die("NameError")
                  /\ console' = announced
                  /\ cycle' = [n |-> cycle.n + 1, pre |-> selected, rew |-> rewards,
                               hit |-> <<s>>, pushes |-> 0]
                  /\ UNCHANGED <<selected, pushed>>
             ELSE IF post # "returns"
             THEN /\ Die(post)
                  /\ console' = Append(announced, s.description)
                  /\ cycle' = [n |-> cycle.n + 1, pre |-> selected, rew |-> rewards,
                               hit |-> <<s>>, pushes |-> 0]
                  /\ UNCHANGED <<selected, pushed>>
             ELSE /\ console' = Append(announced, s.description)
                  /\ pushed' = push_message(pushed, "Kickstarter Reward available!")
                  /\ selected' = Remove(selected, s)
                  /\ cycle' = [n |-> cycle.n + 1, pre |-> selected, rew |-> rewards,
                               hit |-> <<s>>, pushes |-> 1]
                  /\ IF Not(Remove(selected, s))
                     THEN Exit0            \* after time.sleep(10)
                     ELSE Goto("sleep")    \* break
    /\ UNCHANGED <<argv, pledges, rewards, name, polls>>
    /\ UNCHANGED parserVars

\* Lines 225-227.
Sleep ==
    /\ pc = "sleep"
    /\ console' = IF "-v" \in argv.options
                  THEN Append(console, "Waiting")
                  ELSE console
    /\ Goto("poll")
    /\ UNCHANGED <<argv, pledges, rewards, selected, name, polls, pushed, cycle>>
    /\ UNCHANGED parserVars

\* Line 229 with the fresh extraction assigned to the watch-set as well.
Poll_IntoSelected ==
    /\ pc = "poll"
    /\ polls < MaxPolls
    /\ polls' = polls + 1
    /\ \E out \in ProcessOutcomes, title \in PageTitles, ext \in Extractions :
          IF out # "returns"
          THEN /\ Die(out)
               /\ UNCHANGED <<rewards, selected, name>>
          ELSE /\ rewards' = ext
               /\ selected' = ext
               /\ name' = title
               /\ Goto("diff")
    /\ UNCHANGED <<argv, pledges, pushed, console, cycle>>
    /\ UNCHANGED parserVars

\* Line 229.
Poll ==
    /\ pc = "poll"
    /\ polls < MaxPolls
    /\ polls' = polls + 1
    /\ \E out \in ProcessOutcomes, title \in PageTitles, ext \in Extractions :
          IF out # "returns"
          THEN /\ Die(out)
               /\ UNCHANGED <<rewards, name>>
          ELSE /\ rewards' = ext
               /\ name' = title
               /\ Goto("diff")
    /\ UNCHANGED <<argv, pledges, selected, pushed, console, cycle>>
    /\ UNCHANGED parserVars

Next ==
    \/ Startup
    \/ Select
    \/ Confirm
    \/ NoTransition
    \/ Transition
    \/ Sleep
    \/ Poll

Spec == Init /\ [][Next]_vars

TypeOK ==
    /\ argv \in CommandLines
    /\ rewards \in Extractions
    /\ pc \in {"start", "select", "confirm", "diff", "sleep", "poll", "done"}
    /\ polls \in 0..MaxPolls
    /\ exitCode \in {-1, 0, 1}
    /\ (pc = "done") = (exitCode # -1)

\* ------------------------------------------------- the watch loop alone
\* The loop of lines 214-229 entered with any watch-set that lines 195-200
\* are written to produce: a non-empty selection, in candidate order, from a
\* non-empty first extraction, after the confirmation push of line 211.
RECURSIVE SubSeqs(_)
SubSeqs(q) ==
    IF q = <<>> THEN { <<>> }
    ELSE LET rest == SubSeqs(Tail(q))
         IN  rest \cup { <<Head(q)>> \o r : r \in rest }

InitLoop ==
    /\ argv \in { c \in CommandLines : c.amounts = <<>> /\ c.options \subseteq {"-v"} }
    /\ pledges = None
    /\ rewards \in Extractions \ { <<>> }
    /\ selected \in SubSeqs(rewards) \ { <<>> }
    /\ name = " Campaign "
    /\ pc = "diff"
    /\ polls = 0
    /\ pushed = <<"Start watching">>
    /\ console = <<"Selected rewards:",
                   "Sending test push to make sure everything is OK",
                   "Watching...">>
    /\ exitCode = -1
    /\ raised = ""
    /\ cycle = NoCycle
    /\ ks = KickstarterHTMLParser
    /\ feed = NoFeed

NextLoop ==
    \/ NoTransition
    \/ Transition
    \/ Sleep
    \/ Poll

\* The interpreter keeps executing the script: a step that can be taken is
\* taken.
SpecLoop == InitLoop /\ [][NextLoop]_vars /\ WF_vars(NextLoop)

\* ------------------------------------------------------------ vocabulary
Count(q, m) == Cardinality({ i \in 1..Len(q) : q[i] = m })

Confirmations == Count(pushed, "Start watching")
Alerts == Count(pushed, "Kickstarter Reward available!")
Announcements == Count(console, "Reward available!")

\* The script has reached line 213.
Watching == "Watching..." \in Range(console)

IOErrors == { "RequestException", "ParserError" }

\* The watch-set q without the tier of record x.
Without(q, x) ==
    LET Other(y) == y.ident # x.ident
    IN  SelectSeq(q, Other)

\* Positions of the watched records whose ident is missing from rs.
Missing(sel, rs) == { i \in 1..Len(sel) : sel[i].ident \notin IdentsOf(rs) }

\* -------------------------------------------------------------------- C1
\* C1: a poll cycle whose unavailable-set lacks the ident of a watched
\* record (watch-set [A, B], unavailable-set {A, C}) triggers exactly one
\* transition -- one announcement and one availability notification, for
\* that record -- and the watch-set after the cycle is the watch-set before
\* it without that record ([A]).
C1_DiffStep ==
    (cycle.n > 0 /\ Missing(cycle.pre, cycle.rew) # {}) =>
        LET i == CHOOSE k \in Missing(cycle.pre, cycle.rew) :
                    \A j \in Missing(cycle.pre, cycle.rew) : k <= j
        IN  /\ cycle.hit = << cycle.pre[i] >>
            /\ cycle.pushes = 1
            /\ selected = Without(cycle.pre, cycle.pre[i])

\* -------------------------------------------------------------------- C2
\* C2: when a transition takes the last record out of the watch-set, the run
\* has ended there: no further fetch, no further notification, exit code 0.
C2_Exhaustion ==
    (cycle.hit # <<>> /\ Without(cycle.pre, cycle.hit[1]) = <<>>) =>
        /\ pc = "done"
        /\ exitCode = 0
        /\ selected = <<>>
        /\ cycle.pushes = 1

\* -------------------------------------------------------------------- C3
\* C3: in every poll cycle a record leaves the watch-set, or is treated as
\* newly available, only if its ident is absent from the unavailable-set of
\* that cycle; the watched records whose ident is present stay, unchanged and
\* in order, whatever value and description the page shows for that ident.
C3_RemovalByIdentOnly ==
    cycle.n > 0 =>
        LET Present(x) == x.ident \in IdentsOf(cycle.rew)
        IN  /\ \A k \in 1..Len(cycle.hit) : ~Present(cycle.hit[k])
            /\ \A x \in Range(cycle.pre) \ Range(selected) : ~Present(x)
            /\ SelectSeq(selected, Present) = SelectSeq(cycle.pre, Present)
            /\ (cycle.pushes > 0 => cycle.hit # <<>>)

\* A diff step has run over a watched record whose ident the page still
\* lists, with another value and description, and the record is still watched.
C3_Witness ==
    /\ cycle.n > 1
    /\ pc = "sleep"
    /\ \E x \in Range(cycle.pre) : \E r \in Range(cycle.rew) :
          /\ r.ident = x.ident
          /\ r.value # x.value
          /\ r.description # x.description
          /\ x \in Range(selected)

C6_ConfirmationInEveryRun ==
    /\ (pc = "done" /\ exitCode = 0) => Confirmations = 1
    /\ pushed # <<>> => pushed[1] = "Start watching"
    /\ cycle.n <= polls + 1

\* C6: every run that reaches the watch loop has sent exactly one
\* confirmation, before anything else; a run that has not reached it has sent
\* nothing; and the n-th diff step runs only after the start-up extraction
\* and n-1 fetches of the loop have returned, on the latest of them.
C6_Ordering ==
    /\ Confirmations <= 1
    /\ Watching => (Confirmations = 1 /\ pushed[1] = "Start watching")
    /\ ~Watching => (pushed = <<>> /\ cycle.n = 0 /\ Announcements = 0)
    /\ cycle.n <= polls + 1
    /\ pc = "diff" => (cycle.n = polls /\ raised = "")
    /\ pc = "sleep" => (cycle.n = polls + 1 /\ cycle.rew = rewards)

\* After the confirmation and a fetch of the loop, a diff step has decided
\* that a watched tier is available.
C6_Witness ==
    /\ Watching
    /\ polls >= 1
    /\ cycle.n = polls + 1
    /\ cycle.hit # <<>>
    /\ Announcements = 1
    /\ pushed[1] = "Start watching"

\* -------------------------------------------------------------------- C7
\* C7: a fetch or parse that fails during a poll of the loop does not end the
\* run: the cycle's diff is skipped and the loop goes on.
C7_FailedPollSkipsCycle ==
    (Watching /\ polls > 0 /\ cycle.n = polls /\ raised \in IOErrors) =>
        /\ pc # "done"
        /\ exitCode = -1

\* -------------------------------------------------------------------- C8
\* C8: once watching, the run ends only by exhaustion: with an empty
\* watch-set and exit code 0, never on an internal error.
C8_OnlyExhaustionEndsTheLoop ==
    (pc = "done" /\ Watching /\ raised \notin IOErrors) =>
        /\ exitCode = 0
        /\ raised = ""
        /\ selected = <<>>

\* -------------------------------------------------------------------- C9
\* C9: when the first extraction returned nothing, or the selection came out
\* empty, the run is over with exit code 0, has sent no notification and has
\* not entered the watch loop.
C9_NothingToWatch ==
    LET startup == polls = 0 /\ cycle.n = 0 /\ raised = ""
        noCandidates == startup /\ pc # "start" /\ rewards = <<>>
        noSelection  == startup /\ pc \notin {"start", "select"} /\ selected = <<>>
    IN  (noCandidates \/ noSelection) =>
            /\ pc = "done"
            /\ exitCode = 0
            /\ pushed = <<>>
            /\ ~Watching

\* The run has ended on an empty selection from a non-empty candidate list.
C9_Witness ==
    /\ pc = "done"
    /\ exitCode = 0
    /\ rewards # <<>>
    /\ selected = <<>>
    /\ "No reward selected." \in Range(console)

\* ------------------------------------------------------------------- C10
\* The amount a price token or a cost-of-pledge argument stands for, in cents.
AmountCents(t) ==
    CASE t \in {"$50.00", "50"} -> 5000
      [] t \in {"$75.00", "75"} -> 7500

\* C10: with cost-of-pledge arguments given, the watch-set chosen at start-up
\* is exactly the candidates whose price is one of the amounts, in candidate
\* order.
C10_SelectionByAmount ==
    (argv.amounts # <<>> /\ pc \notin {"start", "select"} /\ rewards # <<>>
        /\ polls = 0 /\ raised = "") =>
        LET Wanted(r) == \E k \in 1..Len(argv.amounts) :
                            AmountCents(argv.amounts[k]) = AmountCents(r.value)
        IN  selected = SelectSeq(rewards, Wanted)

\* ------------------------------------------------------------------- C11
\* C11: with no cost-of-pledge argument, whatever options are given, a first
\* extraction of exactly one candidate makes that candidate the watch-set,
\* and one of two or more candidates gets the list printed and the prompt
\* issued.
C11_SelectionWithoutAmounts ==
    (argv.amounts = <<>> /\ rewards # <<>> /\ pc \notin {"start", "select"}
        /\ polls = 0 /\ cycle.n = 0 /\ raised \notin IOErrors) =>
        /\ Len(rewards) = 1 => selected = rewards
        /\ Len(rewards) >= 2 => (raised = "" /\ "menu" \in Range(console))

\* ------------------------------------------------------------------- C17
\* C17: the menu over n >= 2 candidates ends only on an entry of indices
\* within 1..n, with exactly the records at those positions as the watch-set;
\* any other entry leads back to the prompt.
C17_MenuSelection ==
    (pledges.none /\ Len(rewards) >= 2 /\ pc \notin {"start", "select"}
        /\ polls = 0 /\ cycle.n = 0 /\ raised \notin IOErrors) =>
        /\ raised # "NameError"
        /\ \E ans \in MenuAnswers :
              /\ \A k \in 1..Len(ans) : ans[k] \in 1..Len(rewards)
              /\ selected = [k \in 1..Len(ans) |-> rewards[ans[k]]]

\* ------------------------------------------------------------------- C19
\* C19: once watching, every step leaves the watch-set an order-preserving
\* subsequence of what it was: nothing is added, reordered or rewritten, and
\* a record that has left does not come back.
C19_WatchSetOnlyShrinks ==
    [][Watching => selected' \in SubSeqs(selected)]_vars

\* Two diff steps have run, the page now lists a tier that is not watched,
\* and the watch-set is what it was.
C19_Witness ==
    /\ Watching
    /\ cycle.n >= 2
    /\ pc = "sleep"
    /\ selected = cycle.pre
    /\ selected # <<>>
    /\ \E i \in 1..Len(rewards) : rewards[i] \notin Range(selected)

Whitespace == { " ", "\n" }
NonAscii == { "é", "€" }

\* The entries of q at the positions in K, in order, white space as " ".
RECURSIVE Pick(_, _, _)
Pick(q, K, i) ==
    IF i > Len(q) THEN <<>>
    ELSE (IF i \in K
          THEN << IF q[i] \in Whitespace THEN " " ELSE q[i] >>
          ELSE <<>>) \o Pick(q, K, i + 1)

\* t.encode('ascii', 'ignore').decode()
AsciiIgnore(q) ==
    LET Ascii(t) == t \notin NonAscii
    IN  SelectSeq(q, Ascii)

\* html.unescape(t)
unescape(q) == [i \in 1..Len(q) |-> IF q[i] = "&amp;" THEN "&" ELSE q[i]]

\* ' '.join(t.split())
JoinSplit(q) ==
    LET Ws(i) == q[i] \in Whitespace
        K == { i \in 1..Len(q) :
                 \/ ~Ws(i)
                 \/ /\ i > 1
                    /\ ~Ws(i - 1)
                    /\ \E j \in (i + 1)..Len(q) : ~Ws(j) }
    IN  Pick(q, K, 1)

\* dict(attributes): the attribute names present, and the values of class
\* (the class names it lists), title and id.
Attrs(names, class, title, id) ==
    [names |-> names, class |-> class, title |-> title, id |-> id]

NoAttrs == Attrs({}, {}, <<>>, "")

\* `marker in attrs['class']`
HasMarker(attrs, marker) == \E c \in attrs.class : c = marker

StartTags ==
    { [kind |-> "start", tag |-> "li", data |-> <<>>,
       attrs |-> Attrs({"class"}, {"pledge", "pledge--all-gone"}, <<>>, "")],
      [kind |-> "start", tag |-> "li", data |-> <<>>,
       attrs |-> Attrs({"class"}, {"pledge"}, <<>>, "")],
      [kind |-> "start", tag |-> "input", data |-> <<>>,
       attrs |-> Attrs({"class", "title", "id"}, {"pledge__radio"}, <<"$75.00">>, "reward-42")],
      [kind |-> "start", tag |-> "input", data |-> <<>>,
       attrs |-> Attrs({"class", "title", "id"}, {"pledge__radio"}, <<"€", "50">>, "reward-7")],
      [kind |-> "start", tag |-> "input", data |-> <<>>,
       attrs |-> Attrs({"class", "id"}, {"pledge__radio"}, <<>>, "reward-7")],
      [kind |-> "start", tag |-> "input", data |-> <<>>,
       attrs |-> Attrs({"class", "title"}, {"pledge__radio"}, <<"$75.00">>, "")],
      [kind |-> "start", tag |-> "h3", data |-> <<>>,
       attrs |-> Attrs({"class"}, {"pledge__title"}, <<>>, "")],
      [kind |-> "start", tag |-> "b", data |-> <<>>, attrs |-> NoAttrs] }

EndTags ==
    { [kind |-> "end", tag |-> t, data |-> <<>>, attrs |-> NoAttrs] :
        t \in {"li", "h3", "b"} }

DataTexts ==
    { <<"Limited", " ", " ">>, <<"Edition">>, <<"\n", " ", "Poster">>,
      <<"Caf", "é">>, <<"&amp;">> }

DataEvents ==
    { [kind |-> "data", tag |-> "", data |-> d, attrs |-> NoAttrs] : d \in DataTexts }

Events == StartTags \cup EndTags \cup DataEvents

\* handle_starttag(self, tag, attributes), lines 74-96.
handle_starttag(self, tag, attrs) ==
    IF "class" \notin attrs.names
    THEN [obj |-> self, exc |-> ""]
    ELSE
      LET s1 == IF self.in_li_block /\ HasMarker(attrs, "pledge__title")
                THEN [self EXCEPT !.in_desc_block = TRUE]
                ELSE self
          radio == s1.in_li_block /\ tag = "input" /\ HasMarker(attrs, "pledge__radio")
          s2 == IF radio /\ "title" \in attrs.names
                THEN [s1 EXCEPT !.value = AsciiIgnore(attrs.title),
                                !.has = @ \cup {"value"}]
                ELSE s1
          s3 == IF radio /\ "title" \in attrs.names /\ "id" \in attrs.names
                THEN [s2 EXCEPT !.ident = attrs.id, !.has = @ \cup {"ident"}]
                ELSE s2
          s4 == IF tag = "li" /\ HasMarker(attrs, "pledge--all-gone")
                THEN [s3 EXCEPT !.in_li_block = TRUE, !.description = <<>>,
                                !.has = @ \cup {"description"}]
                ELSE s3
      IN  IF radio /\ ~({"title", "id"} \subseteq attrs.names)
          THEN [obj |-> s3, exc |-> "KeyError"]       \* attrs['title'] / attrs['id']
          ELSE [obj |-> s4, exc |-> ""]

\* handle_endtag(self, tag), lines 98-106.
handle_endtag(self, tag) ==
    IF tag = "li" /\ self.in_li_block
    THEN IF {"value", "ident"} \subseteq self.has
         THEN [obj |-> [self EXCEPT
                          !.rewards = Append(@, [value |-> self.value,
                                                 ident |-> self.ident,
                                                 description |-> JoinSplit(self.description)]),
                          !.in_li_block = FALSE],
               exc |-> ""]
         ELSE [obj |-> self, exc |-> "AttributeError"]   \* self.value / self.ident
    ELSE IF tag = "h3"
    THEN [obj |-> [self EXCEPT !.in_desc_block = FALSE], exc |-> ""]
    ELSE [obj |-> self, exc |-> ""]

\* handle_data(self, data), lines 108-110.
handle_data(self, data) ==
    IF self.in_desc_block
    THEN [obj |-> [self EXCEPT !.description = @ \o AsciiIgnore(unescape(data))],
          exc |-> ""]
    ELSE [obj |-> self, exc |-> ""]

\* The handler HTMLParser.feed calls for one event.
Dispatch(self, e) ==
    CASE e.kind = "start" -> handle_starttag(self, e.tag, e.attrs)
      [] e.kind = "end"   -> handle_endtag(self, e.tag)
      [] e.kind = "data"  -> handle_data(self, e.data)

\* ---------------------------------------------- what a markup looks like
IsGoneStart(e) == e.kind = "start" /\ e.tag = "li" /\ HasMarker(e.attrs, "pledge--all-gone")
IsSelector(e)  == e.kind = "start" /\ e.tag = "input" /\ HasMarker(e.attrs, "pledge__radio")
IsTitleStart(e) == e.kind = "start" /\ e.tag = "h3" /\ HasMarker(e.attrs, "pledge__title")
IsEnd(e, t) == e.kind = "end" /\ e.tag = t

\* One step of following a markup against the form
\*     other events, <li all-gone>, block, </li>, other events
\* where the other events hold no all-gone start tag and the block holds,
\* besides text and class-less elements, exactly one selector control with
\* title and id and exactly one <h3 pledge__title> ... </h3> with text and
\* class-less elements inside, at least one text.  phase is "before",
\* "block", "title", "titled" (title closed), "after" or "bad".
ShapeStep(sh, e) ==
    LET bad == [NoShape EXCEPT !.phase = "bad"]
        inert == e.kind = "data" \/ (e.tag = "b")
    IN  CASE sh.phase = "before" ->
                IF IsGoneStart(e) THEN [sh EXCEPT !.phase = "block"] ELSE sh
          [] sh.phase \in {"block", "titled"} ->
                IF inert THEN sh
                ELSE IF IsSelector(e)
                THEN IF sh.inputs = 0 /\ {"title", "id"} \subseteq e.attrs.names
                     THEN [sh EXCEPT !.inputs = 1, !.title = e.attrs.title,
                                     !.id = e.attrs.id]
                     ELSE bad
                ELSE IF IsTitleStart(e)
                THEN IF sh.phase = "block" THEN [sh EXCEPT !.phase = "title"] ELSE bad
                ELSE IF IsEnd(e, "li")
                THEN IF sh.phase = "titled" /\ sh.inputs = 1 /\ sh.texts > 0
                     THEN [sh EXCEPT !.phase = "after"]
                     ELSE bad
                ELSE bad
          [] sh.phase = "title" ->
                IF e.kind = "data"
                THEN [sh EXCEPT !.text = @ \o e.data, !.texts = @ + 1]
                ELSE IF inert THEN sh
                ELSE IF IsEnd(e, "h3") THEN [sh EXCEPT !.phase = "titled"]
                ELSE bad
          [] sh.phase = "after" ->
                IF IsGoneStart(e) THEN bad ELSE sh
          [] OTHER -> sh

\* ------------------------------------------------- calls of ks.process
\* Lines 67-70 up to feed(): a new result list; the flags, value, ident and
\* description are what the previous call left.
process ==
    /\ ~feed.active
    /\ feed.raised = ""
    /\ feed.call < MaxCalls
    /\ feed.mode = "free" => feed.call = 0
    /\ ks' = [ks EXCEPT !.rewards = <<>>, !.has = @ \cup {"rewards"}]
    /\ \E m \in {"free", "record", "replay", "short"} :
          /\ feed.call = 0 => m = feed.mode
          /\ feed.call > 0 => m \in {"replay", "short", "free"}
          /\ m = "replay" => feed.mode \in {"record", "replay"}
          /\ (m = "free" /\ feed.call > 0) => feed.mode = "record"
          /\ feed' = [feed EXCEPT !.call = @ + 1, !.active = TRUE, !.mode = m,
                                  !.page = IF m \in {"short", "free"} THEN <<>> ELSE @,
                                  !.results = IF m \in {"short", "free"} THEN <<>> ELSE @,
                                  !.pos = 0, !.data = 0, !.gone = FALSE,
                                  !.bare = FALSE, !.shape = NoShape]
    /\ UNCHANGED scriptVars

\* The events the markup can go on with.
Offered ==
    IF ~feed.active THEN {}
    ELSE IF feed.mode = "replay"
    THEN (IF feed.pos < Len(feed.page) THEN { feed.page[feed.pos + 1] } ELSE {})
    ELSE { e \in Events :
             /\ feed.mode \in {"record", "short"} => feed.pos < MaxPage
             /\ e.kind = "data" => feed.data < MaxData
             /\ (IsEnd(e, "li") /\ ks.in_li_block) => Len(ks.rewards) < MaxRecords }

\* feed() dispatching event e to its handler; an exception leaves process.
Handle(e) ==
    LET r == Dispatch(ks, e)
        closes == IsEnd(e, "li") /\ ks.in_li_block
    IN  /\ ks' = r.obj
        /\ feed' = [feed EXCEPT
                      !.active = (r.exc = ""),
                      !.raised = r.exc,
                      !.pos = IF feed.mode = "free" THEN @ ELSE @ + 1,
                      !.page = IF feed.mode = "record" THEN Append(@, e) ELSE @,
                      !.data = IF e.kind = "data" THEN @ + 1 ELSE @,
                      !.gone = @ \/ IsGoneStart(e),
                      !.selector = IF IsGoneStart(e) THEN FALSE
                                   ELSE IF IsSelector(e) /\ ks.in_li_block THEN TRUE
                                   ELSE @,
                      !.bare = closes /\ ~feed.selector,
                      !.shape = ShapeStep(@, e)]
        /\ UNCHANGED scriptVars

FeedStartTag == \E e \in Offered : e.kind = "start" /\ Handle(e)

FeedEndTag == \E e \in Offered : e.kind = "end" /\ Handle(e)

FeedData == \E e \in Offered : e.kind = "data" /\ Handle(e)

\* Line 72: the markup is used up, process returns self.rewards.
ProcessReturn ==
    /\ feed.active
    /\ feed.mode = "replay" => feed.pos = Len(feed.page)
    /\ feed' = [feed EXCEPT !.active = FALSE,
                            !.results = IF feed.mode \in {"record", "replay"}
                                        THEN Append(@, ks.rewards) ELSE @]
    /\ UNCHANGED <<ks>>
    /\ UNCHANGED scriptVars

InitParser ==
    /\ argv = [options |-> {}, amounts |-> <<>>]
    /\ pledges = None
    /\ rewards = <<>>
    /\ selected = <<>>
    /\ name = ""
    /\ pc = "start"
    /\ polls = 0
    /\ pushed = <<>>
    /\ console = <<>>
    /\ exitCode = -1
    /\ raised = ""
    /\ cycle = NoCycle
    /\ ks = KickstarterHTMLParser
    /\ feed \in { [NoFeed EXCEPT !.mode = m] : m \in {"free", "record"} }

NextParser ==
    \/ process
    \/ FeedStartTag
    \/ FeedEndTag
    \/ FeedData
    \/ ProcessReturn

SpecParser == InitParser /\ [][NextParser]_vars

ParserTypeOK ==
    /\ ks.in_li_block \in BOOLEAN
    /\ ks.in_desc_block \in BOOLEAN
    /\ feed.call \in 0..MaxCalls
    /\ Len(ks.rewards) <= MaxRecords

\* ------------------------------------------------------------------- C12
\* What the latest call of process returned, once it has returned.
Returned == feed.call >= 1 /\ ~feed.active /\ feed.raised = ""

\* C12: every call of process on a markup with no start tag carrying the
\* all-gone marker returns an empty list, whatever markup the calls before
\* it were given.
C12_NoMarkerNoRecord ==
    (Returned /\ ~feed.gone) => ks.rewards = <<>>

\* ------------------------------------------------------------------- C13
\* C13: a call of process on the markup the call before it was given comes
\* to its end without an exception and returns the list the first call on
\* that markup returned.
C13_Idempotent ==
    (feed.mode = "replay" /\ ~feed.active) =>
        /\ feed.raised = ""
        /\ Len(feed.results) = feed.call
        /\ \A i \in 1..Len(feed.results) : feed.results[i] = feed.results[1]

\* ------------------------------------------------------------------- C14
\* C14: when the end tag of a candidate block in which no selector control
\* occurred has been handled, no exception was raised and the record just
\* appended has an empty price and an empty identifier.
C14_BareBlockEmptyRecord ==
    feed.bare =>
        /\ feed.raised = ""
        /\ Len(ks.rewards) > 0
        /\ ks.rewards[Len(ks.rewards)].value = <<>>
        /\ ks.rewards[Len(ks.rewards)].ident = ""

\* ------------------------------------------------------------------- C15
\* C15: no sequence of start-tag, end-tag and text events makes a handler
\* raise; every call of process comes to its return.
C15_NeverRaises ==
    feed.call >= 1 => feed.raised = ""

\* ------------------------------------------------------------------- C18
\* C18: after every event the parser is inside a title only if it is inside
\* a candidate block.
C18_TitleInsideCandidate ==
    ks.in_desc_block => ks.in_li_block

\* ------------------------------------------------------------------- C16
\* The record of the candidate block the markup of this call holds: price
\* and text captured as the spec's extraction rules word it (title
\* attribute ASCII-filtered; each text decoded, ASCII-filtered, the whole
\* whitespace-normalised).
BlockRecord ==
    [ value |-> AsciiIgnore(feed.shape.title),
      ident |-> feed.shape.id,
      description |-> JoinSplit(AsciiIgnore(unescape(feed.shape.text))) ]

\* C16: a call of process on a markup with exactly one well-formed candidate
\* block returns exactly one record, the one of that block.
C16_OneWellFormedBlock ==
    (Returned /\ feed.shape.phase = "after") => ks.rewards = << BlockRecord >>

====
